---- MODULE Spec2Model ----
(***************************************************************************)
(* Model of the curiefense request-inspection core:                        *)
(*   - RequestField, the merging field container (requestfields.rs);       *)
(*   - inspect / inspect_generic, the decision pipeline (lib.rs).          *)
(* Strings are sequences of byte values (Rust strings are UTF-8 bytes), so *)
(* that base64 decoding and UTF-8 validation are computed, not assumed.    *)
(***************************************************************************)
EXTENDS Integers, Sequences, FiniteSets, TLC

VARIABLES
    fields,     \* RequestField.0 : the HashMap<String, String>, a function key -> value
    adds,       \* history: the (key, value) pairs passed to add() on this container
    prev,       \* history: the container as it was before the last add()
    scans,      \* history: the results of the WAF scans run so far on this container
    pc,         \* where inspect / inspect_generic stands for the request in hand
    nreq,       \* number of requests inspected so far
    req,        \* the request: grasshopper handle, uri, user-agent, rbzid cookie, ip
    urlmap,     \* Option<UrlMap>: what match_urlmap returned
    tags,       \* the tag set of the request
    acl_result, \* Option<ACLResult>: what check_acl returned
    counters,   \* the rate-limit counter store: key -> count
    counters0,  \* history: the counter store when the request began
    calls,      \* history: the operations invoked for the request, with what they returned
    res,        \* Option<Result<Decision, Error>>: what inspect_generic returned
    out,        \* what inspect handed back to the proxy
    config_gen, \* shared: the generation of the configuration now installed
    hsdb_gen,   \* shared: the generation of the signature database now installed (HSDB)
    cfg,        \* Option: the configuration get_config returned to the request (`let cfg`)
    snapSeen,   \* history: the generation each stage of the request worked on
    tagsSeen,   \* history: the tag set handed to each stage of the request that takes it
    passed,     \* history: key -> requests whose increment succeeded and that passed the limit stage
    others      \* history: limit stages run so far by requests of other workers

fvars == <<fields, adds, prev, scans>>
\* the shared state besides the counter store, and the histories of the request
gvars == <<config_gen, hsdb_gen, passed, others>>
hvars == <<cfg, snapSeen, tagsSeen>>
pvars == <<pc, nreq, req, urlmap, tags, acl_result, counters, counters0, calls, res, out,
           config_gen, hsdb_gen, cfg, snapSeen, tagsSeen, passed, others>>
vars == <<fields, adds, prev, scans, pc, nreq, req, urlmap, tags, acl_result, counters,
          counters0, calls, res, out,
          config_gen, hsdb_gen, cfg, snapSeen, tagsSeen, passed, others>>

-----------------------------------------------------------------------------
(* Bounds of the container model *)

\* number of add() calls made on one container
MaxAdds == 3
\* number of items handed to FromIterator::from_iter
MaxIter == 2

-----------------------------------------------------------------------------
(* Byte strings *)

\* ' ' pushed between merged values
SEP == 32
\* '=' the base64 padding byte
PAD == 61
\* "_base64"
SUFFIX == <<95, 98, 97, 115, 101, 54, 52>>

\* keys the callers insert: "a", "a_base64", "b"
Keys == { <<97>>, <<97>> \o SUFFIX, <<98>> }

\* values the callers insert:
\*   ""      empty
\*   "YQ=="  base64 of "a"
\*   "AA=="  base64 of the byte 0
\*   "/w=="  base64 of the byte 0xFF (not UTF-8)
\*   "a b"   rejected by the decoder (space is no base64 symbol)
Values == { <<>>,
            <<89, 81, 61, 61>>,
            <<65, 65, 61, 61>>,
            <<47, 119, 61, 61>>,
            <<97, 32, 98>> }

\* s[from..] as a sequence
Drop(s, n) == SubSeq(s, n + 1, Len(s))
Take(s, n) == SubSeq(s, 1, n)

\* sub occurs in s as a contiguous run
Contains(s, sub) ==
    \E i \in 0..(Len(s) - Len(sub)) : SubSeq(s, i + 1, i + Len(sub)) = sub

-----------------------------------------------------------------------------
(* base64::decode, standard alphabet with canonical padding (RFC 4648) *)

\* the 6-bit value of a base64 symbol, -1 for any other byte
Sextet(c) ==
    IF c >= 65 /\ c <= 90 THEN c - 65
    ELSE IF c >= 97 /\ c <= 122 THEN c - 71
    ELSE IF c >= 48 /\ c <= 57 THEN c + 4
    ELSE IF c = 43 THEN 62
    ELSE IF c = 47 THEN 63
    ELSE -1

\* number of trailing '=' bytes
RECURSIVE TrailingPads(_)
TrailingPads(s) ==
    IF s # <<>> /\ s[Len(s)] = PAD THEN 1 + TrailingPads(Take(s, Len(s) - 1)) ELSE 0

\* the bytes of the complete 4-symbol groups, then of the 2- or 3-symbol tail
RECURSIVE DecodeSymbols(_)
DecodeSymbols(b) ==
    IF Len(b) >= 4 THEN
        LET n == Sextet(b[1]) * 262144 + Sextet(b[2]) * 4096
                 + Sextet(b[3]) * 64 + Sextet(b[4])
        IN  <<n \div 65536, (n \div 256) % 256, n % 256>> \o DecodeSymbols(Drop(b, 4))
    ELSE IF Len(b) = 3 THEN
        LET n == Sextet(b[1]) * 4096 + Sextet(b[2]) * 64 + Sextet(b[3])
        IN  <<n \div 1024, (n \div 4) % 256>>
    ELSE IF Len(b) = 2 THEN
        LET n == Sextet(b[1]) * 64 + Sextet(b[2])
        IN  <<n \div 16>>
    ELSE <<>>

\* Ok(bytes) / Err: [ok |-> BOOLEAN, bytes |-> byte sequence]
B64Decode(s) ==
    LET pads == TrailingPads(s)
        body == Take(s, Len(s) - pads)
        rem  == Len(body) % 4
        good == /\ Len(s) % 4 = 0
                /\ pads <= 2
                /\ \A i \in 1..Len(body) : Sextet(body[i]) >= 0
                /\ rem # 1
                /\ (rem = 2) => (pads = 2 /\ Sextet(body[Len(body)]) % 16 = 0)
                /\ (rem = 3) => (pads = 1 /\ Sextet(body[Len(body)]) % 4 = 0)
                /\ (rem = 0) => (pads = 0)
    IN  IF good THEN [ok |-> TRUE, bytes |-> DecodeSymbols(body)]
        ELSE [ok |-> FALSE, bytes |-> <<>>]

-----------------------------------------------------------------------------
(* String::from_utf8: is the byte sequence well-formed UTF-8 *)

Cont(b, i) == i <= Len(b) /\ b[i] >= 128 /\ b[i] <= 191

RECURSIVE Utf8From(_, _)
Utf8From(b, i) ==
    IF i > Len(b) THEN TRUE
    ELSE LET c == b[i] IN
        IF c < 128 THEN Utf8From(b, i + 1)
        ELSE IF c >= 194 /\ c <= 223 THEN Cont(b, i + 1) /\ Utf8From(b, i + 2)
        ELSE IF c >= 224 /\ c <= 239 THEN
            /\ Cont(b, i + 1) /\ Cont(b, i + 2)
            /\ (c = 224) => b[i + 1] >= 160
            /\ (c = 237) => b[i + 1] <= 159
            /\ Utf8From(b, i + 3)
        ELSE IF c >= 240 /\ c <= 244 THEN
            /\ Cont(b, i + 1) /\ Cont(b, i + 2) /\ Cont(b, i + 3)
            /\ (c = 240) => b[i + 1] >= 144
            /\ (c = 244) => b[i + 1] <= 143
            /\ Utf8From(b, i + 4)
        ELSE FALSE

Utf8Valid(b) == Utf8From(b, 1)

-----------------------------------------------------------------------------
(* RequestField *)

\* Option<T>: None is <<>>, Some(x) is <<x>>
None == <<>>
Some(x) == <<x>>

\* RequestField::default(): the empty map
Default == [x \in {} |-> <<>>]

\* mutant of base_add: joins with ',' instead of ' '
base_add_comma(f, key, value) ==
    [x \in DOMAIN f \cup {key} |->
        IF x = key
        THEN (IF key \in DOMAIN f THEN f[key] \o <<44>> \o value ELSE value)
        ELSE f[x]]

\* mutant of base_add: the value replaces what the key held (HashMap::insert)
base_add_overwrite(f, key, value) ==
    [x \in DOMAIN f \cup {key} |-> IF x = key THEN value ELSE f[x]]

\* entry(key).and_modify(|v| { v.push(' '); v.push_str(&value) }).or_insert(value)
base_add(f, key, value) ==
    [x \in DOMAIN f \cup {key} |->
        IF x = key
        THEN (IF key \in DOMAIN f THEN f[key] \o <<SEP>> \o value ELSE value)
        ELSE f[x]]

\* mutant of add: no is_empty test before trying the base64 decoding
add_no_empty_test(f, key, value) ==
    LET dec == B64Decode(value)
        shadowed == IF dec.ok /\ Utf8Valid(dec.bytes)
                    THEN base_add(f, key \o SUFFIX, dec.bytes)
                    ELSE f
    IN  base_add(shadowed, key, value)

\* mutant of add: the decoded value is merged under the key itself
add_shadow_same_key(f, key, value) ==
    LET dec == B64Decode(value)
        shadowed == IF value # <<>> /\ dec.ok /\ Utf8Valid(dec.bytes)
                    THEN base_add(f, key, dec.bytes)
                    ELSE f
    IN  base_add(shadowed, key, value)

\* RequestField::add: the decoded variant first, under key + "_base64", then the value
add(f, key, value) ==
    LET dec == B64Decode(value)
        shadowed == IF value # <<>> /\ dec.ok /\ Utf8Valid(dec.bytes)
                    THEN base_add(f, key \o SUFFIX, dec.bytes)
                    ELSE f
    IN  base_add(shadowed, key, value)

\* RequestField::get
get(f, k) == IF k \in DOMAIN f THEN Some(f[k]) ELSE None

\* RequestField::len
len(f) == Cardinality(DOMAIN f)

\* FromIterator::from_iter: add() every item, in order, to a default container
RECURSIVE from_iter(_)
from_iter(items) ==
    IF items = <<>> THEN Default
    ELSE LET n == Len(items)
         IN  add(from_iter(Take(items, n - 1)), items[n][1], items[n][2])

Items == Keys \X Values

\* sequences of at most n items
SeqsUpTo(n) == UNION { [1..m -> Items] : m \in 0..n }

InitFields ==
    /\ fields = Default
    /\ adds = <<>>
    /\ prev = Default
    /\ scans = {}

\* one call of add(k, v) on the container
Add(k, v) ==
    /\ Len(adds) < MaxAdds
    /\ fields' = add(fields, k, v)
    /\ adds' = Append(adds, <<k, v>>)
    /\ prev' = fields
    /\ scans' = {}
    /\ UNCHANGED pvars

\* a container built by collect() / from_iter over items: from_iter starts from
\* RequestField::default(), so it acts on a container nothing was added to yet
FromIter(items) ==
    /\ adds = <<>>
    /\ fields' = from_iter(items)
    /\ adds' = items
    /\ prev' = from_iter(Take(items, Len(items) - 1))
    /\ scans' = {}
    /\ UNCHANGED pvars

NextFields ==
    \/ \E k \in Keys, v \in Values : Add(k, v)
    \/ \E items \in SeqsUpTo(MaxIter) : FromIter(items)


-----------------------------------------------------------------------------
(* Properties of RequestField *)

\* the values joined by one space each
RECURSIVE Join(_)
Join(vals) ==
    IF vals = <<>> THEN <<>>
    ELSE IF Len(vals) = 1 THEN vals[1]
    ELSE Join(Take(vals, Len(vals) - 1)) \o <<32>> \o vals[Len(vals)]

\* v is non-empty, is accepted by the base64 decoder, and decodes to UTF-8 text
DecodesToText(v) == v # <<>> /\ B64Decode(v).ok /\ Utf8Valid(B64Decode(v).bytes)

\* the text v decodes to
Decoded(v) == B64Decode(v).bytes

\* the values the history merged into entry x, in the order they were merged
RECURSIVE MergedInto(_, _)
MergedInto(x, hist) ==
    IF hist = <<>> THEN <<>>
    ELSE LET n == Len(hist)
             k == hist[n][1]
             v == hist[n][2]
         IN  MergedInto(x, Take(hist, n - 1))
             \o (IF DecodesToText(v) /\ k \o SUFFIX = x THEN <<Decoded(v)>> ELSE <<>>)
             \o (IF k = x THEN <<v>> ELSE <<>>)

\* the raw values the history inserted under key k, in order
RECURSIVE RawOf(_, _)
RawOf(k, hist) ==
    IF hist = <<>> THEN <<>>
    ELSE LET n == Len(hist)
         IN  RawOf(k, Take(hist, n - 1))
             \o (IF hist[n][1] = k THEN <<hist[n][2]>> ELSE <<>>)

\* the decoded variants of the values the history inserted under key k, in order
RECURSIVE DecodedOf(_, _)
DecodedOf(k, hist) ==
    IF hist = <<>> THEN <<>>
    ELSE LET n == Len(hist)
         IN  DecodedOf(k, Take(hist, n - 1))
             \o (IF hist[n][1] = k /\ DecodesToText(hist[n][2])
                 THEN <<Decoded(hist[n][2])>> ELSE <<>>)

\* the keys the callers passed to add()
Inserted == { adds[i][1] : i \in 1..Len(adds) }

\* every key an entry can live under
AllKeys == Keys \cup { k \o SUFFIX : k \in Keys }

LastKey == adds[Len(adds)][1]
LastValue == adds[Len(adds)][2]

\* C7: the merge rule. The last insert of (k, v) stored v under k if k was absent
\* and otherwise replaced the value w by w + " " + v; every entry is the
\* space-joined concatenation, in insertion order, of the values merged into it;
\* and the insert left every entry other than k and k + "_base64" as it was.
C7_MergeRule ==
    /\ DOMAIN fields = { x \in AllKeys : MergedInto(x, adds) # <<>> }
    /\ \A x \in DOMAIN fields : get(fields, x) = Some(Join(MergedInto(x, adds)))
    /\ adds # <<>> =>
        /\ LastKey \in DOMAIN fields
        /\ fields[LastKey] = IF LastKey \in DOMAIN prev
                             THEN prev[LastKey] \o <<32>> \o LastValue
                             ELSE LastValue
        /\ \A x \in DOMAIN prev :
               x \notin {LastKey, LastKey \o SUFFIX}
                   => x \in DOMAIN fields /\ fields[x] = prev[x]

\* C7 witness: an entry holds three merged values and another entry was left alone
C7_Witness ==
    /\ Len(adds) >= 2
    /\ \E x \in DOMAIN fields : Len(MergedInto(x, adds)) >= 3
    /\ \E x \in DOMAIN prev : x \notin {LastKey, LastKey \o SUFFIX}

\* C8: every add(k, v) whose v is non-empty and decodes to text v' leaves, from
\* then on, an entry k containing v and an entry k + "_base64" containing v';
\* an add whose v is empty, undecodable or not UTF-8 neither creates nor
\* modifies the entry k + "_base64".
C8_Base64Shadowing ==
    /\ \A i \in 1..Len(adds) :
           LET k == adds[i][1]
               v == adds[i][2]
           IN  DecodesToText(v) =>
                   /\ k \in DOMAIN fields
                   /\ Contains(fields[k], v)
                   /\ k \o SUFFIX \in DOMAIN fields
                   /\ Contains(fields[k \o SUFFIX], Decoded(v))
    /\ (adds # <<>> /\ ~DecodesToText(LastValue)) =>
           get(fields, LastKey \o SUFFIX) = get(prev, LastKey \o SUFFIX)

\* C8 witness: a decodable value was added, then an empty and an undecodable one
\* under the same key, whose shadow entry exists
C8_Witness ==
    /\ Len(adds) = 3
    /\ DecodesToText(adds[1][2])
    /\ adds[2][2] = <<>>
    /\ ~DecodesToText(adds[3][2]) /\ adds[3][2] # <<>>
    /\ adds[2][1] = adds[1][1] /\ adds[3][1] = adds[1][1]
    /\ adds[1][1] \o SUFFIX \in DOMAIN fields

\* C9 as stated: for every inserted key, the entry of the key is made of the raw
\* values inserted under it only, and the entry of key + "_base64" is made of the
\* decoded variants of those values only, whatever keys the callers insert.
C9_Original ==
    \A k \in Inserted :
        /\ get(fields, k) = Some(Join(RawOf(k, adds)))
        /\ k \o SUFFIX \in DOMAIN fields
               => fields[k \o SUFFIX] = Join(DecodedOf(k, adds))

\* C9 amended: the separation holds for a key k as long as the callers insert no
\* key equal to another inserted key + "_base64": the entry of k holds raw values
\* only unless k is such a shadow name, and the entry of k + "_base64" holds
\* decoded variants only unless k + "_base64" was itself inserted.
C9_Separation ==
    \A k \in Inserted :
        /\ (\A k0 \in Inserted : k # k0 \o SUFFIX)
               => get(fields, k) = Some(Join(RawOf(k, adds)))
        /\ (k \o SUFFIX \notin Inserted /\ k \o SUFFIX \in DOMAIN fields)
               => fields[k \o SUFFIX] = Join(DecodedOf(k, adds))

\* C9 witness: two decodable values under one key, whose shadow name nobody inserted
C9_Witness ==
    \E k \in Inserted :
        /\ k \o SUFFIX \notin Inserted
        /\ \A k0 \in Inserted : k # k0 \o SUFFIX
        /\ Len(DecodedOf(k, adds)) >= 2
        /\ Len(RawOf(k, adds)) >= 3

-----------------------------------------------------------------------------
(* The decision pipeline: data *)

\* number of requests inspected in one run
MaxRequests == 2
\* threshold of the limit rule bound to a URL-map
Threshold == 1
\* number of times the writer replaces the configuration in one run
MaxSwaps == 1
\* number of limit stages run by the requests of other workers in one run
MaxOthers == 1

\* Result<T, E>
Ok(d) == [ok |-> TRUE, dec |-> d]
Err(e) == [ok |-> FALSE, err |-> e]

\* Decision::Pass
Pass == [variant |-> "Pass"]

\* client addresses (the key of the limit rule)
IPs == {"1.1.1.1", "2.2.2.2"}

\* rbzid cookies: absent, "ok-", "no-", "x"
RbzidCookies == {None, Some(<<111, 107, 45>>), Some(<<110, 111, 45>>), Some(<<120>>)}

\* the URI prefix challenge_phase02 answers on
ChallengeUri == "/challenge/verify"

\* what inspect receives: the optional grasshopper handle and the request
Requests ==
    [gh : BOOLEAN,
     uri : {None, Some("/"), Some(ChallengeUri)},
     ua : {None, Some("curl/8")},
     rbzid : RbzidCookies,
     ip : IPs]

NoRequest == [gh |-> FALSE, uri |-> None, ua |-> None, rbzid |-> None, ip |-> "1.1.1.1"]

\* the URL-maps of the configuration: (host-map name, url-map)
UrlMaps ==
    [nm : {"hm"}, name : {"um"}, aclid : {"acl1"}, aclname : {"aclprofile"},
     wafname : {"waf1"}, acl_active : BOOLEAN, limits : {<<>>, <<"rule1">>}]

\* the tags tag_request can attach
TagChoices == {{}, {"bot:curl"}}

\* Tags::insert_qualified
insert_qualified(t, family, value) == t \cup {family \o ":" \o value}

\* ACLDecision { allowed, tags }
BotDecisions == [allowed : BOOLEAN, tags : {{"bot:curl"}}]
HumanDecisions == [allowed : BOOLEAN, tags : {{"ip:1.1.1.1"}}]
BypassDecisions == [allowed : BOOLEAN, tags : {{"geo:xx"}}]

Opt(S) == {None} \cup {Some(x) : x \in S}

\* ACLResult = Bypass(ACLDecision) | Match(BotHuman { bot, human })
ACLResults ==
    [kind : {"Bypass"}, dec : BypassDecisions]
    \cup [kind : {"Match"}, bot : Opt(BotDecisions), human : Opt(HumanDecisions)]

\* one completed operation: its name and what it returned
Call(op, ret) == [op |-> op, ret |-> ret]

NotReturned == [returned |-> FALSE, value |-> None]

\* one observation: the stage and the generation of the data it worked on
Seen(stage, gen) == [stage |-> stage, gen |-> gen]

\* one hand-over of the tag set: the stage and the set it was given
Given(stage, tgs) == [stage |-> stage, tags |-> tgs]

\* the limit stage incremented a counter and got its count back
Counted(lc) == lc.ops # <<>> /\ lc.ops[1].ret >= 1

-----------------------------------------------------------------------------
(* The decision pipeline: collaborators *)

\* Grasshopper::parse_rbzid: Some(true) on a valid proof, Some(false) on an
\* invalid one, None on a token it cannot read. The proof "ok=" is the valid one.
ParseRbzid(token, ua) ==
    IF token = <<111, 107, 61>> THEN Some(TRUE)
    ELSE IF token = <<110, 111, 61>> THEN Some(FALSE)
    ELSE None

\* Grasshopper::issue_challenge: the challenge interstitial for (ua, tags)
IssueChallenge(ua, tgs) ==
    [variant |-> "Action", content |-> "challenge interstitial", ua |-> ua, tags |-> tgs]

\* the Action of a verified challenge: clears the challenge and redirects
Phase02Action == [variant |-> "Action", content |-> "challenge cleared"]

\* the Action of a limit hit
LimitAction(rule) ==
    [variant |-> "Action", reason |-> [initiator |-> "limit", rule |-> rule]]

\* limit_check(&reqinfo, &urlmap.limits, &mut tags): for the rule bound to the
\* URL-map, increments the counter of the request's key and answers with an
\* Action when the returned count exceeds the threshold; a store that cannot be
\* reached is passed through with a tag
limit_check(r, limits, tgs, cnt, store_ok) ==
    IF limits = <<>> THEN
        [ops |-> <<>>, ret |-> Pass, tags |-> tgs, counters |-> cnt]
    ELSE IF ~store_ok THEN
        [ops |-> <<Call("incr", -1)>>, ret |-> Pass,
         tags |-> tgs \cup {"limit-store-error"}, counters |-> cnt]
    ELSE
        LET n == cnt[r.ip] + 1
        IN  [ops |-> <<Call("incr", n)>>,
             ret |-> IF n > Threshold THEN LimitAction(limits[1]) ELSE Pass,
             tags |-> tgs,
             counters |-> [cnt EXCEPT ![r.ip] = n]]

\* WafBlock::to_action
WafAction == [variant |-> "Action", atype |-> "Block", reason |-> [initiator |-> "waf"]]

\* rbzid.replace('-', "=")
replace_dash(s) == [i \in 1..Len(s) |-> IF s[i] = 45 THEN 61 ELSE s[i]]

\* challenge_phase02(gh, uri, headers): on the challenge URI, with a proof and a
\* user-agent, asks grasshopper; a valid proof yields the clearing Action
challenge_phase02(r) ==
    IF r.uri = Some(ChallengeUri) /\ r.rbzid # None /\ r.ua # None
    THEN LET v == ParseRbzid(replace_dash(r.rbzid[1]), r.ua[1])
         IN  [ops |-> <<Call("parse_rbzid", v)>>,
              ret |-> IF v = Some(TRUE) THEN Some(Phase02Action) ELSE None]
    ELSE [ops |-> <<>>, ret |-> None]

\* challenge_phase01(gh, ua, tags): the Action of issue_challenge(ua, tags)
challenge_phase01(ua, tgs) ==
    [ops |-> <<Call("issue_challenge", IssueChallenge(ua, tgs))>>,
     ret |-> IssueChallenge(ua, tgs)]

-----------------------------------------------------------------------------
(* The decision pipeline: lib.rs *)

\* mutant of acl_block: the Action blocks whatever the blocking flag is
acl_block_always_blocks(blocking, code, tgs) ==
    [variant |-> "Action",
     atype |-> "Block",
     ban |-> FALSE,
     status |-> 403,
     headers |-> None,
     reason |-> [action |-> code, initiator |-> "acl", reason |-> tgs],
     content |-> "access denied",
     extra_tags |-> None]

\* acl_block(blocking, code, tags)
acl_block(blocking, code, tgs) ==
    [variant |-> "Action",
     atype |-> IF blocking THEN "Block" ELSE "Monitor",
     ban |-> FALSE,
     status |-> 403,
     headers |-> None,
     reason |-> [action |-> code, initiator |-> "acl", reason |-> tgs],
     content |-> "access denied",
     extra_tags |-> None]

\* challenge_verified(gh, reqinfo)
challenge_verified(r) ==
    IF r.rbzid # None /\ r.ua # None
    THEN LET v == ParseRbzid(replace_dash(r.rbzid[1]), r.ua[1])
         IN  [ops |-> <<Call("parse_rbzid", v)>>,
              val |-> IF v = None THEN FALSE ELSE v[1]]
    ELSE [ops |-> <<>>, val |-> FALSE]

\* control goes on to waf_check
FallThrough(ops) == [ops |-> ops, ret |-> None]

\* mutant of bypass_arm: an allowed bypass does not return and the WAF runs
bypass_arm_falls_through(dec, blocking) ==
    IF dec.allowed
    THEN FallThrough(<<>>)
    ELSE [ops |-> <<Call("acl_block", 0)>>,
          ret |-> Some(acl_block(blocking, 0, dec.tags))]

\* ACLResult::Bypass(dec) => if dec.allowed { return Ok(Decision::Pass) }
\*                           else { return Ok(acl_block(urlmap.acl_active, 0, &dec.tags)) }
bypass_arm(dec, blocking) ==
    IF dec.allowed
    THEN [ops |-> <<>>, ret |-> Some(Pass)]
    ELSE [ops |-> <<Call("acl_block", 0)>>,
          ret |-> Some(acl_block(blocking, 0, dec.tags))]

\* ACLResult::Match(BotHuman { bot: _, human: Some(ACLDecision { allowed: false, tags }) })
\*     => return Ok(acl_block(urlmap.acl_active, 5, &tags))
human_arm(dec, blocking) ==
    [ops |-> <<Call("acl_block", 5)>>,
     ret |-> Some(acl_block(blocking, 5, dec.tags))]

\* mutant of bot_arm: the test of challenge_verified is inverted
bot_arm_inverted(dec, r, blocking) ==
    IF r.gh THEN
        LET cv == challenge_verified(r)
            verified == Call("challenge_verified", cv.val)
        IN  IF cv.val THEN
                IF r.ua = None
                THEN [ops |-> cv.ops \o <<verified, Call("acl_block", 3)>>,
                      ret |-> Some(acl_block(blocking, 3, dec.tags))]
                ELSE LET ch == challenge_phase01(r.ua[1], dec.tags)
                     IN  [ops |-> cv.ops \o <<verified>> \o ch.ops
                                  \o <<Call("challenge_phase01", ch.ret)>>,
                          ret |-> Some(ch.ret)]
            ELSE FallThrough(cv.ops \o <<verified>>)
    ELSE FallThrough(<<>>)

\* ACLResult::Match(BotHuman { bot: Some(ACLDecision { allowed: false, tags }), human: _ })
\*     => if let Some(gh) = mgh { if !challenge_verified(&gh, &reqinfo) { return ... } }
bot_arm(dec, r, blocking) ==
    IF r.gh THEN
        LET cv == challenge_verified(r)
            verified == Call("challenge_verified", cv.val)
        IN  IF ~cv.val THEN
                IF r.ua = None
                THEN [ops |-> cv.ops \o <<verified, Call("acl_block", 3)>>,
                      ret |-> Some(acl_block(blocking, 3, dec.tags))]
                ELSE LET ch == challenge_phase01(r.ua[1], dec.tags)
                     IN  [ops |-> cv.ops \o <<verified>> \o ch.ops
                                  \o <<Call("challenge_phase01", ch.ret)>>,
                          ret |-> Some(ch.ret)]
            ELSE FallThrough(cv.ops \o <<verified>>)
    ELSE FallThrough(<<>>)

\* mutant of acl_dispatch: the bot arm is tried before the human arm
acl_dispatch_bot_first(a, r, blocking) ==
    IF a.kind = "Bypass" THEN bypass_arm(a.dec, blocking)
    ELSE IF a.bot # None /\ ~a.bot[1].allowed THEN bot_arm(a.bot[1], r, blocking)
    ELSE IF a.human # None /\ ~a.human[1].allowed THEN human_arm(a.human[1], blocking)
    ELSE FallThrough(<<>>)

\* the match on acl_result in inspect_generic, first arm that matches: the
\* operations it invokes and the Decision it returns (None: on to waf_check)
acl_dispatch(a, r, blocking) ==
    IF a.kind = "Bypass" THEN bypass_arm(a.dec, blocking)
    ELSE IF a.human # None /\ ~a.human[1].allowed THEN human_arm(a.human[1], blocking)
    ELSE IF a.bot # None /\ ~a.bot[1].allowed THEN bot_arm(a.bot[1], r, blocking)
    ELSE FallThrough(<<>>)

InitPipeline ==
    /\ pc = "idle"
    /\ nreq = 0
    /\ req = NoRequest
    /\ urlmap = None
    /\ tags = {}
    /\ acl_result = None
    /\ counters = [k \in IPs |-> 0]
    /\ counters0 = [k \in IPs |-> 0]
    /\ calls = <<>>
    /\ res = None
    /\ out = NotReturned
    /\ config_gen = 0
    /\ hsdb_gen = 0
    /\ cfg = None
    /\ snapSeen = <<>>
    /\ tagsSeen = <<>>
    /\ passed = [ip \in IPs |-> 0]
    /\ others = 0

\* inspect_generic returns v: control goes back to inspect
Return(v) ==
    /\ res' = Some(v)
    /\ pc' = "return"

\* inspect is called with (metaheaders, metadata, lua_grasshopper), one of the
\* requests of R, and calls inspect_generic
StartRequest(R) ==
    /\ pc = "idle"
    /\ nreq < MaxRequests
    /\ \E r \in R : req' = r
    /\ nreq' = nreq + 1
    /\ urlmap' = None
    /\ tags' = {}
    /\ acl_result' = None
    /\ counters0' = counters
    /\ calls' = <<>>
    /\ res' = None
    /\ out' = NotReturned
    /\ pc' = "get_config"
    /\ cfg' = None
    /\ snapSeen' = <<>>
    /\ tagsSeen' = <<>>
    /\ UNCHANGED <<counters>>
    /\ UNCHANGED gvars
    /\ UNCHANGED fvars

\* inspect called with any request
NewRequest == StartRequest(Requests)

\* inspect called without a grasshopper handle, for a request on "/" with no
\* rbzid cookie: the requests of the runs with other workers beside
NewRequestConc ==
    StartRequest({r \in Requests : ~r.gh /\ r.rbzid = None /\ r.uri = Some("/")})

\* let cfg = get_config(configpath)?;  let reqinfo = map_request(...)
GetConfig ==
    /\ pc = "get_config"
    /\ \E ok \in BOOLEAN :
        /\ calls' = Append(calls, Call("get_config", ok))
        /\ IF ok
           THEN /\ cfg' = Some(config_gen)
                /\ snapSeen' = Append(snapSeen, Seen("get_config", config_gen))
                /\ pc' = "match_urlmap"
                /\ UNCHANGED res
           ELSE Return(Err("config")) /\ UNCHANGED <<cfg, snapSeen>>
    /\ UNCHANGED <<nreq, req, urlmap, tags, acl_result, counters, counters0, out>>
    /\ UNCHANGED <<tagsSeen>>
    /\ UNCHANGED gvars
    /\ UNCHANGED fvars

\* mutant of MatchUrlmap: a request no URL-map matches goes on through the pipeline
\* with the first URL-map instead of returning Pass
MatchUrlmap_no_return ==
    /\ pc = "match_urlmap"
    /\ \E m \in Opt(UrlMaps) :
        /\ calls' = Append(calls, Call("match_urlmap", m))
        /\ urlmap' = IF m = None
                     THEN Some(CHOOSE u \in UrlMaps : u.acl_active /\ u.limits # <<>>)
                     ELSE m
        /\ pc' = "phase02"
        /\ UNCHANGED res
    /\ snapSeen' = Append(snapSeen, Seen("match_urlmap", cfg[1]))
    /\ UNCHANGED <<nreq, req, tags, acl_result, counters, counters0, out>>
    /\ UNCHANGED <<cfg, tagsSeen>>
    /\ UNCHANGED gvars
    /\ UNCHANGED fvars

\* match match_urlmap(&reqinfo, &cfg) { None => return Ok(Decision::Pass), Some(x) => x }
MatchUrlmap ==
    /\ pc = "match_urlmap"
    /\ \E m \in Opt(UrlMaps) :
        /\ calls' = Append(calls, Call("match_urlmap", m))
        /\ IF m = None
           THEN Return(Ok(Pass)) /\ UNCHANGED urlmap
           ELSE urlmap' = m /\ pc' = "phase02" /\ UNCHANGED res
    /\ snapSeen' = Append(snapSeen, Seen("match_urlmap", cfg[1]))
    /\ UNCHANGED <<nreq, req, tags, acl_result, counters, counters0, out>>
    /\ UNCHANGED <<cfg, tagsSeen>>
    /\ UNCHANGED gvars
    /\ UNCHANGED fvars

\* mutant of ChallengePhase02: the Action of phase 02 is dropped and the pipeline goes on
ChallengePhase02_no_return ==
    /\ pc = "phase02"
    /\ IF req.gh /\ req.uri # None
       THEN LET ph == challenge_phase02(req)
            IN  calls' = calls \o ph.ops \o <<Call("challenge_phase02", ph.ret)>>
       ELSE UNCHANGED calls
    /\ pc' = "tag_request"
    /\ UNCHANGED <<nreq, req, urlmap, tags, acl_result, counters, counters0, out, res>>
    /\ UNCHANGED hvars
    /\ UNCHANGED gvars
    /\ UNCHANGED fvars

\* if let Some(dec) = mgh.as_ref().and_then(|gh| uri.and_then(|uri|
\*     challenge_phase02(gh, uri, &reqinfo.headers))) { return Ok(dec) }
ChallengePhase02 ==
    /\ pc = "phase02"
    /\ IF req.gh /\ req.uri # None
       THEN LET ph == challenge_phase02(req)
            IN  /\ calls' = calls \o ph.ops \o <<Call("challenge_phase02", ph.ret)>>
                /\ IF ph.ret # None
                   THEN Return(Ok(ph.ret[1]))
                   ELSE pc' = "tag_request" /\ UNCHANGED res
       ELSE pc' = "tag_request" /\ UNCHANGED <<calls, res>>
    /\ UNCHANGED <<nreq, req, urlmap, tags, acl_result, counters, counters0, out>>
    /\ UNCHANGED hvars
    /\ UNCHANGED gvars
    /\ UNCHANGED fvars

\* mutant of TagRequest: the wafid tag is not inserted
TagRequest_no_wafid ==
    /\ pc = "tag_request"
    /\ \E t \in TagChoices :
        LET um == urlmap[1]
            t1 == insert_qualified(t, "urlmap", um.nm)
            t2 == insert_qualified(t1, "urlmap-entry", um.name)
            t3 == insert_qualified(t2, "aclid", um.aclid)
            t4 == insert_qualified(t3, "aclname", um.aclname)
        IN  /\ tags' = t4
            /\ calls' = Append(calls, Call("tag_request", t))
    /\ pc' = "limit_check"
    /\ snapSeen' = Append(snapSeen, Seen("tag_request", cfg[1]))
    /\ UNCHANGED <<nreq, req, urlmap, acl_result, counters, counters0, res, out>>
    /\ UNCHANGED <<cfg, tagsSeen>>
    /\ UNCHANGED gvars
    /\ UNCHANGED fvars

\* mutant of TagRequest: the limit stage is left out, tagging is followed by the ACL
TagRequest_then_acl ==
    /\ pc = "tag_request"
    /\ \E t \in TagChoices :
        LET um == urlmap[1]
            t1 == insert_qualified(t, "urlmap", um.nm)
            t2 == insert_qualified(t1, "urlmap-entry", um.name)
            t3 == insert_qualified(t2, "aclid", um.aclid)
            t4 == insert_qualified(t3, "aclname", um.aclname)
            t5 == insert_qualified(t4, "wafid", um.wafname)
        IN  /\ tags' = t5
            /\ calls' = Append(calls, Call("tag_request", t))
    /\ pc' = "check_acl"
    /\ snapSeen' = Append(snapSeen, Seen("tag_request", cfg[1]))
    /\ UNCHANGED <<nreq, req, urlmap, acl_result, counters, counters0, res, out>>
    /\ UNCHANGED <<cfg, tagsSeen>>
    /\ UNCHANGED gvars
    /\ UNCHANGED fvars

\* let mut tags = tag_request(&cfg, &reqinfo); then the five qualified tags
TagRequest ==
    /\ pc = "tag_request"
    /\ \E t \in TagChoices :
        LET um == urlmap[1]
            t1 == insert_qualified(t, "urlmap", um.nm)
            t2 == insert_qualified(t1, "urlmap-entry", um.name)
            t3 == insert_qualified(t2, "aclid", um.aclid)
            t4 == insert_qualified(t3, "aclname", um.aclname)
            t5 == insert_qualified(t4, "wafid", um.wafname)
        IN  /\ tags' = t5
            /\ calls' = Append(calls, Call("tag_request", t))
    /\ pc' = "limit_check"
    /\ snapSeen' = Append(snapSeen, Seen("tag_request", cfg[1]))
    /\ UNCHANGED <<nreq, req, urlmap, acl_result, counters, counters0, res, out>>
    /\ UNCHANGED <<cfg, tagsSeen>>
    /\ UNCHANGED gvars
    /\ UNCHANGED fvars

\* mutant of LimitCheck: the Action of the limit stage is not returned and the
\* pipeline goes on to the ACL
LimitCheck_no_return ==
    /\ pc = "limit_check"
    /\ \E store_ok \in BOOLEAN :
        LET lc == limit_check(req, urlmap[1].limits, tags, counters, store_ok)
        IN  /\ tags' = lc.tags
            /\ counters' = lc.counters
            /\ calls' = calls \o lc.ops \o <<Call("limit_check", lc.ret)>>
            /\ pc' = "check_acl"
            /\ UNCHANGED res
            /\ passed' = IF Counted(lc) /\ lc.ret.variant = "Pass"
                         THEN [passed EXCEPT ![req.ip] = @ + 1]
                         ELSE passed
    /\ snapSeen' = Append(snapSeen, Seen("limit_check", cfg[1]))
    /\ tagsSeen' = Append(tagsSeen, Given("limit_check", tags))
    /\ UNCHANGED <<nreq, req, urlmap, acl_result, counters0, out>>
    /\ UNCHANGED <<cfg, config_gen, hsdb_gen, others>>
    /\ UNCHANGED fvars

\* let limit_check = limit_check(&reqinfo, &urlmap.limits, &mut tags);
\* if let Decision::Action(_) = limit_check { return Ok(limit_check) }
LimitCheck ==
    /\ pc = "limit_check"
    /\ \E store_ok \in BOOLEAN :
        LET lc == limit_check(req, urlmap[1].limits, tags, counters, store_ok)
        IN  /\ tags' = lc.tags
            /\ counters' = lc.counters
            /\ calls' = calls \o lc.ops \o <<Call("limit_check", lc.ret)>>
            /\ IF lc.ret.variant = "Action"
               THEN Return(Ok(lc.ret))
               ELSE pc' = "check_acl" /\ UNCHANGED res
            /\ passed' = IF Counted(lc) /\ lc.ret.variant = "Pass"
                         THEN [passed EXCEPT ![req.ip] = @ + 1]
                         ELSE passed
    /\ snapSeen' = Append(snapSeen, Seen("limit_check", cfg[1]))
    /\ tagsSeen' = Append(tagsSeen, Given("limit_check", tags))
    /\ UNCHANGED <<nreq, req, urlmap, acl_result, counters0, out>>
    /\ UNCHANGED <<cfg, config_gen, hsdb_gen, others>>
    /\ UNCHANGED fvars

\* let acl_result = check_acl(&tags, &urlmap.acl_profile); match acl_result { ... }
CheckAcl ==
    /\ pc = "check_acl"
    /\ \E a \in ACLResults :
        LET d == acl_dispatch(a, req, urlmap[1].acl_active)
        IN  /\ acl_result' = Some(a)
            /\ calls' = calls \o <<Call("check_acl", a)>> \o d.ops
            /\ IF d.ret # None
               THEN Return(Ok(d.ret[1]))
               ELSE pc' = "waf_check" /\ UNCHANGED res
    /\ snapSeen' = Append(snapSeen, Seen("check_acl", cfg[1]))
    /\ tagsSeen' = Append(tagsSeen, Given("check_acl", tags))
    /\ UNCHANGED <<nreq, req, urlmap, tags, counters, counters0, out>>
    /\ UNCHANGED <<cfg>>
    /\ UNCHANGED gvars
    /\ UNCHANGED fvars

\* let waf_result = waf_check(&reqinfo, &urlmap.waf_profile, HSDB.read()?);
\* Ok(match waf_result { Ok(()) => Decision::Pass, Err(wb) => Decision::Action(wb.to_action()) })
WafCheck ==
    /\ pc = "waf_check"
    /\ \E lock_ok \in BOOLEAN :
        IF ~lock_ok
        THEN /\ calls' = Append(calls, Call("HSDB.read", FALSE))
             /\ Return(Err("poisoned"))
             /\ UNCHANGED snapSeen
        ELSE \E blocked \in BOOLEAN :
             /\ calls' = calls \o <<Call("HSDB.read", TRUE), Call("waf_check", blocked)>>
             /\ snapSeen' = Append(snapSeen, Seen("waf_check", hsdb_gen))
             /\ Return(Ok(IF blocked THEN WafAction ELSE Pass))
    /\ UNCHANGED <<nreq, req, urlmap, tags, acl_result, counters, counters0, out>>
    /\ UNCHANGED <<cfg, tagsSeen>>
    /\ UNCHANGED gvars
    /\ UNCHANGED fvars

\* Ok(res.ok().map(InspectionResult)): what inspect hands back to the proxy
InspectReturn ==
    /\ pc = "return"
    /\ out' = [returned |-> TRUE,
               value |-> IF res[1].ok THEN Some(res[1].dec) ELSE None]
    /\ pc' = "idle"
    /\ UNCHANGED <<nreq, req, urlmap, tags, acl_result, counters, counters0, calls, res>>
    /\ UNCHANGED hvars
    /\ UNCHANGED gvars
    /\ UNCHANGED fvars

Init == InitFields /\ InitPipeline

Next ==
    \/ NewRequest
    \/ GetConfig
    \/ MatchUrlmap
    \/ ChallengePhase02
    \/ TagRequest
    \/ LimitCheck
    \/ CheckAcl
    \/ WafCheck
    \/ InspectReturn

\* the pipeline, one request after the other
Spec == Init /\ [][Next]_vars

\* the writer: installs a new configuration and a new signature database in
\* place of the current ones, at any moment of a request in flight
Swap ==
    /\ config_gen < MaxSwaps
    /\ config_gen' = config_gen + 1
    /\ hsdb_gen' = hsdb_gen + 1
    /\ UNCHANGED <<pc, nreq, req, urlmap, tags, acl_result, counters, counters0, calls,
                   res, out, passed, others>>
    /\ UNCHANGED hvars
    /\ UNCHANGED fvars

\* the limit stage of a request handled by another worker, for the same rule
\* and the key ip, at any moment of the request in flight
ConcurrentLimitCheck(ip) ==
    /\ others < MaxOthers
    /\ LET lc == limit_check([NoRequest EXCEPT !.ip = ip], <<"rule1">>, {}, counters, TRUE)
       IN  /\ counters' = lc.counters
           /\ passed' = IF Counted(lc) /\ lc.ret.variant = "Pass"
                        THEN [passed EXCEPT ![ip] = @ + 1]
                        ELSE passed
    /\ others' = others + 1
    /\ UNCHANGED <<pc, nreq, req, urlmap, tags, acl_result, counters0, calls, res, out,
                   config_gen, hsdb_gen>>
    /\ UNCHANGED hvars
    /\ UNCHANGED fvars

NextConc ==
    \/ NewRequestConc
    \/ GetConfig
    \/ MatchUrlmap
    \/ ChallengePhase02
    \/ TagRequest
    \/ LimitCheck
    \/ CheckAcl
    \/ WafCheck
    \/ InspectReturn
    \/ Swap
    \/ \E ip \in IPs : ConcurrentLimitCheck(ip)

\* the pipeline of one worker, with the writer and the other workers running
\* beside it
SpecConc == Init /\ [][NextConc]_vars

\* the field container alone
SpecFields == Init /\ [][NextFields]_vars

-----------------------------------------------------------------------------
(* The WAF scan of one section of the request *)

\* RequestField::iter: the iterator of the HashMap, which visits the entries in
\* an order of its own; every order of the keys is one it can take
RECURSIVE iter(_)
iter(f) ==
    IF DOMAIN f = {} THEN {<<>>}
    ELSE UNION { { <<<<k, f[k]>>>> \o rest :
                     rest \in iter([x \in DOMAIN f \ {k} |-> f[x]]) } : k \in DOMAIN f }

\* the signature database: signature 1 matches "a", signature 2 matches "=";
\* each match scores 1
Signatures == << [id |-> 1, pat |-> <<97>>], [id |-> 2, pat |-> <<PAD>>] >>

\* the score at which the profile blocks
WafThreshold == 1

\* the signatures that match a value, in the order of the database
RECURSIVE MatchesFrom(_, _)
MatchesFrom(value, i) ==
    IF i > Len(Signatures) THEN <<>>
    ELSE (IF Contains(value, Signatures[i].pat) THEN <<Signatures[i].id>> ELSE <<>>)
         \o MatchesFrom(value, i + 1)

\* the signatures matched while the name/value pairs are visited in this order
RECURSIVE MatchesOf(_)
MatchesOf(pairs) ==
    IF pairs = <<>> THEN <<>>
    ELSE MatchesFrom(pairs[1][2], 1) \o MatchesOf(Drop(pairs, 1))

\* WafBlock::to_action for the signature whose match crossed the threshold
WafBlockAction(sig) ==
    [WafAction EXCEPT !.reason = [initiator |-> "waf", sig |-> sig, section |-> "headers"]]

\* the scan of the pairs in the order given: the accumulated score crosses the
\* threshold at the match number WafThreshold, whose signature is reported
waf_scan(pairs) ==
    LET m == MatchesOf(pairs)
    IN  IF Len(m) >= WafThreshold THEN WafBlockAction(m[WafThreshold]) ELSE Pass

\* one run of the scanner over the headers of the request
WafScan ==
    /\ \E pairs \in iter(fields) : scans' = scans \cup {waf_scan(pairs)}
    /\ UNCHANGED <<fields, adds, prev>>
    /\ UNCHANGED pvars

NextWaf ==
    \/ NextFields
    \/ WafScan

\* the field container and the scans run on it
SpecWaf == Init /\ [][NextWaf]_vars

-----------------------------------------------------------------------------
(* Properties of the pipeline *)

\* the operations completed so far for the request in hand
Invoked(op) == \E i \in 1..Len(calls) : calls[i].op = op

\* what was completed after check_acl returned
AfterAcl ==
    LET i == CHOOSE j \in 1..Len(calls) : calls[j].op = "check_acl"
    IN  SubSeq(calls, i + 1, Len(calls))

InvokedAfterAcl(op) == \E i \in 1..Len(AfterAcl) : AfterAcl[i].op = op

\* the operations of the Grasshopper capability
GrasshopperOps == {"parse_rbzid", "issue_challenge"}

\* check_acl returned Match with the human / the bot sub-result denied
IsMatch == acl_result # None /\ acl_result[1].kind = "Match"
HumanDenied == IsMatch /\ acl_result[1].human # None /\ ~acl_result[1].human[1].allowed
BotDenied == IsMatch /\ acl_result[1].bot # None /\ ~acl_result[1].bot[1].allowed
IsBypass == acl_result # None /\ acl_result[1].kind = "Bypass"

\* the request holds a proof that grasshopper accepts for its user-agent
HoldsValidProof ==
    /\ req.rbzid # None
    /\ req.ua # None
    /\ ParseRbzid(replace_dash(req.rbzid[1]), req.ua[1]) = Some(TRUE)

\* the i-th completed operation yielded a terminal Action
Terminal(i) ==
    LET e == calls[i]
    IN  \/ e.op = "challenge_phase02" /\ e.ret # None
        \/ e.op = "limit_check" /\ e.ret.variant = "Action"
        \/ e.op \in {"acl_block", "challenge_phase01"}
        \/ e.op = "waf_check" /\ e.ret

\* C1: short-circuit monotonicity. Once phase 02, limit_check, the ACL dispatch
\* or waf_check has yielded a terminal Action, nothing is invoked after it and
\* inspect_generic returns an Action; when phase 02 yielded it, no counter was
\* incremented, no tag attached and the ACL not evaluated; when limit_check
\* yielded it, the ACL was not evaluated.
C1_ShortCircuit ==
    \A i \in 1..Len(calls) :
        Terminal(i) =>
            /\ i = Len(calls)
            /\ res # None /\ res[1].ok /\ res[1].dec.variant = "Action"
            /\ calls[i].op = "challenge_phase02" =>
                   /\ res[1].dec = calls[i].ret[1]
                   /\ counters = counters0
                   /\ ~Invoked("incr")
                   /\ tags = {}
                   /\ acl_result = None
            /\ calls[i].op = "limit_check" =>
                   /\ res[1].dec = calls[i].ret
                   /\ acl_result = None

\* C1 witness: phase 02 returned its Action for a request whose key was already
\* counted and inspect has handed the result back
C1_Witness ==
    /\ out.returned
    /\ calls # <<>>
    /\ calls[Len(calls)].op = "challenge_phase02"
    /\ calls[Len(calls)].ret # None
    /\ counters0[req.ip] > 0

\* C2: when match_urlmap returns None, inspect_generic returns Pass at once:
\* nothing is invoked after match_urlmap, no counter moves, no tag is attached,
\* whatever the grasshopper handle, the cookies and the headers are.
C2_NoUrlmapPass ==
    \A i \in 1..Len(calls) :
        (calls[i].op = "match_urlmap" /\ calls[i].ret = None) =>
            /\ i = Len(calls)
            /\ res = Some(Ok(Pass))
            /\ counters = counters0
            /\ tags = {}
            /\ acl_result = None
            /\ out.returned => out.value = Some(Pass)

\* C2 witness: no URL-map matched a request that carries a grasshopper handle,
\* the challenge URI, a proof and a user-agent, and Pass was handed back
C2_Witness ==
    /\ out.returned
    /\ calls[Len(calls)].op = "match_urlmap"
    /\ calls[Len(calls)].ret = None
    /\ req.gh /\ req.uri = Some(ChallengeUri) /\ HoldsValidProof

\* C3 as stated: bot denied, human not denied, no grasshopper handle: the
\* pipeline returns an ACL Action with code 3 and waf_check is not invoked.
C3_BotDeniedNoGrasshopperBlocks ==
    (BotDenied /\ ~HumanDenied /\ ~req.gh /\ res # None) =>
        /\ res[1].ok
        /\ \E b \in BOOLEAN : res[1].dec = acl_block(b, 3, acl_result[1].bot[1].tags)
        /\ ~Invoked("waf_check")

\* C4 as stated: bot denied, human not denied, grasshopper present: the result
\* is the code-3 block without a user-agent and the Action of issue_challenge
\* otherwise, and waf_check is not invoked.
C4_Original ==
    (BotDenied /\ ~HumanDenied /\ req.gh /\ res # None) =>
        /\ res = Some(Ok(IF req.ua = None
                         THEN acl_block(urlmap[1].acl_active, 3, acl_result[1].bot[1].tags)
                         ELSE IssueChallenge(req.ua[1], acl_result[1].bot[1].tags)))
        /\ ~Invoked("waf_check")

\* C4 amended: bot denied, human not denied, grasshopper present, and the request
\* holds no valid challenge proof: the result is the code-3 block without a
\* user-agent and the Action of issue_challenge(user-agent, tags) otherwise, and
\* waf_check is not invoked.
C4_Phase01Decides ==
    (BotDenied /\ ~HumanDenied /\ req.gh /\ ~HoldsValidProof /\ res # None) =>
        /\ res = Some(Ok(IF req.ua = None
                         THEN acl_block(urlmap[1].acl_active, 3, acl_result[1].bot[1].tags)
                         ELSE IssueChallenge(req.ua[1], acl_result[1].bot[1].tags)))
        /\ ~Invoked("waf_check")
        /\ req.ua # None => Invoked("issue_challenge")

\* C4 witness: a bot-denied request with a user-agent and a proof grasshopper
\* rejects was handed the challenge
C4_Witness ==
    /\ out.returned
    /\ BotDenied /\ ~HumanDenied /\ req.gh
    /\ req.ua # None /\ req.rbzid # None /\ ~HoldsValidProof
    /\ out.value = Some(IssueChallenge(req.ua[1], acl_result[1].bot[1].tags))

\* C5: when check_acl returns Match with the human sub-result denied, the
\* pipeline returns the ACL Action with code 5 and the human decision's tags,
\* whatever the bot sub-result and the grasshopper handle are; from check_acl's
\* return on, only acl_block is invoked; no challenge is verified or issued for
\* the ACL and waf_check is not invoked, so the request ends neither in Pass nor
\* in a challenge.
C5_HumanDeniedBlocks ==
    (HumanDenied /\ res # None) =>
        /\ res = Some(Ok(acl_block(urlmap[1].acl_active, 5, acl_result[1].human[1].tags)))
        /\ res[1].dec.reason.initiator = "acl"
        /\ res[1].dec.reason.action = 5
        /\ AfterAcl = <<Call("acl_block", 5)>>
        /\ \A op \in {"challenge_verified", "challenge_phase01", "issue_challenge",
                      "waf_check"} : ~Invoked(op)
        /\ out.returned => out.value = Some(res[1].dec)

\* C5 witness: human denied and bot denied, grasshopper present with a
\* user-agent, and the code-5 Action was handed back
C5_Witness ==
    /\ out.returned
    /\ HumanDenied /\ BotDenied
    /\ req.gh /\ req.ua # None
    /\ out.value = Some(acl_block(urlmap[1].acl_active, 5, acl_result[1].human[1].tags))

\* C6 as stated: Bypass(allowed) returns Pass and Bypass(denied) the ACL Action
\* with code 0; waf_check and every grasshopper operation are never invoked for
\* that request.
C6_Original ==
    (IsBypass /\ res # None) =>
        /\ res = Some(Ok(IF acl_result[1].dec.allowed
                         THEN Pass
                         ELSE acl_block(urlmap[1].acl_active, 0, acl_result[1].dec.tags)))
        /\ ~Invoked("waf_check")
        /\ \A op \in GrasshopperOps : ~Invoked(op)

\* C6 amended: Bypass(allowed) returns Pass and Bypass(denied) the ACL Action
\* with code 0; waf_check is never invoked for that request and no grasshopper
\* operation is invoked once check_acl has returned (phase 02, which runs
\* before tagging, may have asked grasshopper to verify a proof).
C6_BypassTerminal ==
    (IsBypass /\ res # None) =>
        /\ res = Some(Ok(IF acl_result[1].dec.allowed
                         THEN Pass
                         ELSE acl_block(urlmap[1].acl_active, 0, acl_result[1].dec.tags)))
        /\ ~Invoked("waf_check")
        /\ \A op \in GrasshopperOps \cup {"challenge_verified", "challenge_phase01"} :
               ~InvokedAfterAcl(op)

\* C6 witness: an allowed bypass handed Pass back to a request that carries a
\* grasshopper handle and a valid proof
C6_Witness ==
    /\ out.returned
    /\ IsBypass /\ acl_result[1].dec.allowed
    /\ req.gh /\ HoldsValidProof
    /\ out.value = Some(Pass)

-----------------------------------------------------------------------------
(* Further properties of the field container *)

\* s is a prefix of t
IsPrefix(s, t) == Len(s) <= Len(t) /\ Take(t, Len(s)) = s

\* C16 as stated: after any sequence of add calls no stored value, raw or
\* base64-shadow, contains the null character (byte 0).
C16_NullFreedom ==
    \A x \in DOMAIN fields : \A i \in 1..Len(fields[x]) : fields[x][i] # 0

\* C20: the container only grows. After add(k, v) every key that was present
\* is still present and its previous value is a prefix of its new value; only
\* the entries k and k + "_base64" differ from before; len() grows by at most
\* two, and by at most one when v has no base64 shadow.
C20_OnlyGrows ==
    adds # <<>> =>
        LET k == LastKey
            v == LastValue
        IN  /\ DOMAIN prev \subseteq DOMAIN fields
            /\ \A x \in DOMAIN prev : IsPrefix(prev[x], fields[x])
            /\ \A x \in DOMAIN prev : x \notin {k, k \o SUFFIX} => fields[x] = prev[x]
            /\ DOMAIN fields \ DOMAIN prev \subseteq {k, k \o SUFFIX}
            /\ len(fields) <= len(prev) + 2
            /\ ~DecodesToText(v) => len(fields) <= len(prev) + 1

\* C20 witness: a container that already held an entry merged a second value
\* into it, and an add of a decodable value under a fresh key made len() grow
\* by two
C20_Witness ==
    /\ Len(adds) = 3
    /\ adds[1][1] = adds[2][1]
    /\ prev[adds[1][1]] = adds[1][2] \o <<SEP>> \o adds[2][2]
    /\ adds[2][2] # <<>>
    /\ DecodesToText(LastValue)
    /\ len(fields) = len(prev) + 2
    /\ fields[adds[1][1]] = prev[adds[1][1]]

-----------------------------------------------------------------------------
(* Further properties of the pipeline *)

\* C10 as stated: when get_config fails for a request, its inspection yields
\* the decision Pass, not an absent result.
C10_MissingConfigPasses ==
    (out.returned /\ Invoked("get_config") /\ ~calls[1].ret) =>
        out.value = Some(Pass)

\* C11 as stated: when the signature-database lock is found poisoned at the WAF
\* stage, the inspection hands back a blocking Action whose reason names
\* "waf-unavailable"; it is never Pass and never an absent result. (HSDB.read
\* is the last completed operation exactly when it found the lock poisoned.)
C11_PoisonedLockBlocks ==
    (out.returned /\ calls # <<>> /\ calls[Len(calls)].op = "HSDB.read") =>
        /\ out.value # None
        /\ out.value[1].variant = "Action"
        /\ out.value[1].reason.reason = "waf-unavailable"

\* the tags of the ACL decision that acl_block was called for with this code
DenyingTags(code) ==
    IF code = 0 THEN acl_result[1].dec.tags
    ELSE IF code = 5 THEN acl_result[1].human[1].tags
    ELSE acl_result[1].bot[1].tags

\* C18: every Action built by acl_block (codes 0, 3 and 5) has status 403, ban
\* false, no headers, no extra tags, the content "access denied" and the reason
\* {action: code, initiator: "acl", reason: tags of the denying decision}; its
\* kind is Block when the URL-map's acl_active is true and Monitor otherwise;
\* and it is what the pipeline returns, Monitor included: nothing runs after
\* acl_block, and the WAF stage is not entered.
C18_AclBlockShape ==
    \A i \in 1..Len(calls) :
        calls[i].op = "acl_block" =>
            /\ i = Len(calls)
            /\ calls[i].ret \in {0, 3, 5}
            /\ res # None /\ res[1].ok
            /\ LET d == res[1].dec
               IN  /\ d.variant = "Action"
                   /\ d.status = 403
                   /\ d.ban = FALSE
                   /\ d.headers = None
                   /\ d.extra_tags = None
                   /\ d.content = "access denied"
                   /\ d.reason = [action |-> calls[i].ret, initiator |-> "acl",
                                  reason |-> DenyingTags(calls[i].ret)]
                   /\ d.atype = IF urlmap[1].acl_active THEN "Block" ELSE "Monitor"
                   /\ out.returned => out.value = Some(d)
            /\ ~Invoked("HSDB.read")
            /\ ~Invoked("waf_check")

\* C18 witness: a URL-map whose ACL is not active, a denied bypass: the Monitor
\* Action with code 0 was handed back and the WAF did not run
C18_Witness ==
    /\ out.returned
    /\ IsBypass /\ ~acl_result[1].dec.allowed
    /\ ~urlmap[1].acl_active
    /\ calls[Len(calls)].op = "acl_block"
    /\ out.value # None
    /\ out.value[1].atype = "Monitor"
    /\ out.value[1].reason.action = 0

\* C19 as stated: bot denied (human not denied), grasshopper present: the
\* request is verified exactly when it has an rbzid cookie and a user-agent for
\* which parse_rbzid (cookie with '-' replaced by '=') returns Some(true); a
\* verified request sees neither issue_challenge nor acl_block, goes on to
\* waf_check, and the result of waf_check alone decides Pass or block.
C19_VerifiedGoesToWaf ==
    (BotDenied /\ ~HumanDenied /\ req.gh /\ res # None) =>
        /\ \E i \in 1..Len(calls) :
               calls[i].op = "challenge_verified" /\ calls[i].ret = HoldsValidProof
        /\ HoldsValidProof =>
               /\ ~Invoked("issue_challenge")
               /\ ~Invoked("acl_block")
               /\ Invoked("waf_check")
               /\ res = Some(Ok(IF calls[Len(calls)].ret THEN WafAction ELSE Pass))

\* the stages of inspect_generic, in the order of the source
StageRank ==
    [op \in {"match_urlmap", "challenge_phase02", "tag_request", "limit_check",
             "check_acl", "challenge_verified", "waf_check"} |->
        CASE op = "match_urlmap" -> 1
          [] op = "challenge_phase02" -> 2
          [] op = "tag_request" -> 3
          [] op = "limit_check" -> 4
          [] op = "check_acl" -> 5
          [] op = "challenge_verified" -> 6
          [] op = "waf_check" -> 7]

Stages == DOMAIN StageRank

\* the positions in the log at which a stage completed
StageIdx == { i \in 1..Len(calls) : calls[i].op \in Stages }

\* the last stage completed
LastStage == calls[CHOOSE i \in StageIdx : \A j \in StageIdx : j <= i]

\* C17: stage ordering. Each stage runs at most once and only in the order
\* match_urlmap, challenge_phase02 (only with a grasshopper handle and a request
\* URI), tag_request, limit_check, check_acl, the challenge check (bot-denied
\* branch only), waf_check, none of the mandatory ones being skipped; the
\* counters are incremented inside the limit stage, before the ACL is
\* evaluated; and control leaves the sequence only after match_urlmap found no
\* URL-map, after phase 02 yielded an Action, or after the limit, ACL,
\* challenge or WAF stage.
C17_StageOrder ==
    /\ \A i, j \in StageIdx :
           i < j => StageRank[calls[i].op] < StageRank[calls[j].op]
    /\ Invoked("challenge_phase02") => req.gh /\ req.uri # None
    /\ (Invoked("tag_request") /\ req.gh /\ req.uri # None) => Invoked("challenge_phase02")
    /\ Invoked("tag_request") => Invoked("match_urlmap")
    /\ Invoked("limit_check") => Invoked("tag_request")
    /\ Invoked("check_acl") => Invoked("limit_check")
    /\ Invoked("waf_check") => Invoked("check_acl")
    /\ Invoked("challenge_verified") => BotDenied /\ ~HumanDenied
    /\ \A i, j \in 1..Len(calls) :
           (calls[i].op = "incr" /\ calls[j].op \in {"limit_check", "check_acl"}) => i < j
    /\ \A i, j \in 1..Len(calls) :
           (calls[i].op = "incr" /\ calls[j].op = "tag_request") => j < i
    /\ (res # None /\ StageIdx # {}) =>
           /\ LastStage.op # "tag_request"
           /\ LastStage.op = "match_urlmap" => LastStage.ret = None
           /\ LastStage.op = "challenge_phase02" => LastStage.ret # None

\* C17 witness: a request went through every stage: phase 02 declined, a
\* counter was incremented, the bot was denied, its proof verified, and the WAF
\* gave the result that was handed back
C17_Witness ==
    /\ out.returned
    /\ { calls[i].op : i \in StageIdx } = Stages
    /\ Invoked("incr")
    /\ counters[req.ip] = counters0[req.ip] + 1

\* the five qualified tags of the matched URL-map
QualifiedTags ==
    { "urlmap:" \o urlmap[1].nm,
      "urlmap-entry:" \o urlmap[1].name,
      "aclid:" \o urlmap[1].aclid,
      "aclname:" \o urlmap[1].aclname,
      "wafid:" \o urlmap[1].wafname }

\* what tag_request returned for the request in hand
TagRequestResult ==
    calls[CHOOSE i \in 1..Len(calls) : calls[i].op = "tag_request"].ret

\* C15: tag accumulation. The tag set of a request only grows: the set handed
\* to a stage contains the set handed to every stage before it and is
\* contained in the set the request holds now; the set handed to limit_check
\* and then to check_acl contains every tag tag_request produced and the five
\* qualified tags (urlmap, urlmap-entry, aclid, aclname, wafid); check_acl is
\* handed every tag limit_check was handed.
C15_TagAccumulation ==
    /\ \A i, j \in 1..Len(tagsSeen) :
           i <= j => tagsSeen[i].tags \subseteq tagsSeen[j].tags
    /\ \A i \in 1..Len(tagsSeen) :
           /\ tagsSeen[i].tags \subseteq tags
           /\ TagRequestResult \subseteq tagsSeen[i].tags
           /\ QualifiedTags \subseteq tagsSeen[i].tags
    /\ Invoked("tag_request") => TagRequestResult \cup QualifiedTags \subseteq tags
    /\ \A i \in 1..Len(tagsSeen) :
           tagsSeen[i].stage = "check_acl" =>
               /\ i = 2
               /\ tagsSeen[1].stage = "limit_check"

\* C15 witness: tag_request produced a tag, the limit stage attached one more,
\* and check_acl was handed a strictly larger set than limit_check
C15_Witness ==
    /\ Len(tagsSeen) = 2
    /\ tagsSeen[2].stage = "check_acl"
    /\ TagRequestResult # {}
    /\ tagsSeen[1].tags # tagsSeen[2].tags
    /\ Cardinality(tagsSeen[1].tags) = 6

\* C12 as stated: snapshot consistency. Whatever the writer does while a
\* request is in flight, every stage of the request (URL-map match, tagging,
\* limits, ACL, and the signature read of the WAF) works on the one snapshot
\* that get_config gave the request when it began.
C12_SnapshotConsistency ==
    \A i \in 1..Len(snapSeen) : snapSeen[i].gen = snapSeen[1].gen

\* C13: for a limit rule with threshold T and a working counter store, in any
\* interleaving with the limit stages of other workers' requests: a request
\* passes the limit stage exactly when the count its own increment returned
\* does not exceed T; otherwise it is answered by an Action of initiator
\* "limit", which is the result of the pipeline, nothing running after it; and
\* for every key at most T requests pass the limit stage.
C13_LimitLinearizable ==
    /\ \A ip \in IPs : passed[ip] <= Threshold
    /\ \A i, j \in 1..Len(calls) :
           (calls[i].op = "incr" /\ calls[i].ret >= 1 /\ calls[j].op = "limit_check") =>
               /\ calls[i].ret <= counters[req.ip]
               /\ (calls[j].ret.variant = "Pass") <=> (calls[i].ret <= Threshold)
               /\ calls[i].ret > Threshold =>
                      /\ calls[j].ret.reason.initiator = "limit"
                      /\ j = Len(calls)
                      /\ res = Some(Ok(calls[j].ret))
                      /\ acl_result = None
                      /\ out.returned => out.value = Some(calls[j].ret)

\* C13 witness: the request in flight and requests of other workers counted on
\* the same key; T of them passed, and the request in flight, whose increment
\* returned more than T, was handed the limit Action
C13_Witness ==
    /\ out.returned
    /\ others > 0
    /\ passed[req.ip] = Threshold
    /\ counters[req.ip] > counters0[req.ip] + 1
    /\ calls[Len(calls)].op = "limit_check"
    /\ out.value = Some(LimitAction("rule1"))

\* C14 as stated: determinism. For a fixed configuration, counter store,
\* signature database and grasshopper, two runs on the same request return the
\* same Decision, reason document included; the result does not depend on the
\* order in which the header container is iterated.
C14_Determinism == Cardinality(scans) <= 1

====
